---- MODULE Spec2Model ----
(***************************************************************************)
(* Model of the Linx voice client (the demo with AudioBuffer): the         *)
(* message handler installed with SetOnMessageCallback, the capture        *)
(* thread (audio_thread), the playback thread with AudioBuffer, the main   *)
(* thread and the WebSocketClient event loop that runs the callbacks and   *)
(* drains send_queue_.                                                     *)
(***************************************************************************)
EXTENDS Naturals, Sequences, FiniteSets, TLC

VARIABLES
    running,        \* linx_state.running
    listen_state,   \* linx_state.listen_state
    tts_state,      \* linx_state.tts_state
    session_id,     \* linx_state.session_id
    buffer_queue,   \* audio_buffer.buffer_queue
    has_data,       \* audio_buffer.has_data
    send_queue_,    \* WebSocketClient::send_queue_
    running_,       \* WebSocketClient::running_
    conn,           \* the lws connection behind WebSocketClient::wsi_
    pc_main,        \* position of main()
    pc_ws,          \* position of ws_thread
    pc_event,       \* position of WebSocketClient::event_thread_
    pc_audio,       \* position of audio_thread (the capture loop)
    pc_playback,    \* position of playback_thread
    audio_chunk,    \* playback_thread's local audio_chunk
    read_ok,        \* what the last audio->Read returned
    tick,           \* history: what the current playback iteration has done
    pushed,         \* history: the chunks given to AudioBuffer::push, in order
    popped,         \* history: the chunks AudioBuffer::pop has handed out
    wire_on,        \* the text frames of this run are being recorded
    queued,         \* history: the messages given to send_text, in order
    written,        \* history: the text frames lws_write was given, in order
    exited,         \* the process has called exit()
    last,           \* reason, kind of frame and response of the last lws callback
    since_tts_start \* history: a tts start was handled, no hello or tts stop since

linxVars == <<running, listen_state, tts_state, session_id>>
bufVars == <<buffer_queue, has_data>>
wsVars == <<send_queue_, running_, conn>>
pcVars == <<pc_main, pc_ws, pc_event, pc_audio>>
histVars == <<last, since_tts_start>>
playVars == <<pc_playback, audio_chunk, tick, pushed, popped>>
audioVars == <<bufVars, playVars, read_ok>>
obsVars == <<wire_on, queued, written>>
vars == <<linxVars, audioVars, wsVars, pcVars, exited, histVars, obsVars>>

----------------------------------------------------------------------------
(* Bounds of the model. *)

\* send_queue_ is an unbounded std::vector; callbacks that queue are held
\* back once it holds this many messages.
MaxQueue == 2

\* buffer_queue is an unbounded std::queue; binary frames are held back once
\* it holds this many chunks.
MaxBuffer == 2

\* The number of chunks pushed in one run is unbounded; binary frames that
\* decode are held back once this many have been pushed.
MaxPushed == 3

\* In a run that records its text frames, callbacks that queue are held
\* back once this many messages have been given to send_text.
MaxSent == 3

\* The two demos are given the same text frames side by side, every
\* sequence of at most this many.
MaxRun == 2

----------------------------------------------------------------------------
(* Values. *)

CHUNK == 960
SAMPLE_RATE == 16000

\* The frame_size given to audio->SetConfig, in samples.
frame_size == 320

\* The time frame_size samples last, in milliseconds.
FrameDuration == (frame_size * 1000) \div SAMPLE_RATE

\* A json value that is null: operator[] on a missing key yields it, and
\* so stands here for a field that is absent or is not a string.
Null == "<null>"

\* The empty std::string.
EmptyString == << >>

SessionIds == {"s1", "wrong"}
TypeVals == {"hello", "tts", "goodbye", "stt", Null}
StateVals == {"start", "stop", "sentence_start", Null}
SidVals == SessionIds \cup {Null}

\* Sample counts opus_decode can return for a frame: a full chunk, a
\* shorter one, nothing, or an error code.
DecodeVals == {"full", "short", "zero", "error"}

\* Inbound text frames by what the handler tests: empty, not starting with
\* '{', starting with '{' but rejected by json::parse, or a JSON object.
RawShapes == {"empty", "noise", "broken"}

\* The handler reads "state" only of a message whose type is tts, so the
\* other types are drawn without one.
JsonFrames ==
    [binary : {FALSE}, shape : {"json"}, type : {"tts"},
     session_id : SidVals, state : StateVals, decoded : {"zero"}]
    \cup
    [binary : {FALSE}, shape : {"json"}, type : TypeVals \ {"tts"},
     session_id : SidVals, state : {Null}, decoded : {"zero"}]

RawFrames ==
    [binary : {FALSE}, shape : RawShapes, type : {Null},
     session_id : {Null}, state : {Null}, decoded : {"zero"}]

TextFrames == JsonFrames \cup RawFrames

BinaryFrames ==
    [binary : {TRUE}, shape : {"opus"}, type : {Null},
     session_id : {Null}, state : {Null}, decoded : DecodeVals]

Frames == TextFrames \cup BinaryFrames

NoFrame ==
    [binary |-> FALSE, shape |-> "none", type |-> Null,
     session_id |-> Null, state |-> Null, decoded |-> "zero"]

\* json::dump() of the start_msg object: nlohmann::json keeps object keys
\* in a std::map, so they are written in key order.
StartMsg(sid) ==
    << <<"mode", "auto">>, <<"session_id", sid>>,
       <<"state", "start">>, <<"type", "listen">> >>

\* json::dump() of hello_msg (audio_params nested).
HelloMsg ==
    << <<"audio_params", "opus/16000/1/60">>, <<"transport", "websocket">>,
       <<"type", "hello">>, <<"version", "1">> >>

\* Reading a key of a dumped object back (what the peer's parser does).
Field(text, key) ==
    IF \E i \in 1..Len(text) : text[i][1] = key
    THEN LET i == CHOOSE j \in 1..Len(text) : text[j][1] = key IN text[i][2]
    ELSE Null

----------------------------------------------------------------------------
(* The control-message handler: the text branch of the lambda given to     *)
(* SetOnMessageCallback.  s is the record of listen_state, tts_state,      *)
(* session_id; m the parsed message.  Each step yields the state it        *)
(* leaves, the string it returns and whether it has left the try block     *)
(* (returned or thrown).                                                   *)

Going(s) == [st |-> s, reply |-> EmptyString, left |-> FALSE]
Thrown(s) == [st |-> s, reply |-> EmptyString, left |-> TRUE]
Returned(s, r) == [st |-> s, reply |-> r, left |-> TRUE]

\* The hello branch with start_msg built before session_id is assigned.
HelloBranch_stale(s, m) ==
    IF m.type # "hello" THEN Going(s)
    ELSE IF m.session_id = Null THEN Thrown(s)
    ELSE Returned([s EXCEPT !.session_id = m.session_id,
                            !.listen_state = "start"],
                  StartMsg(s.session_id))

\* if (received_msg["type"] == "hello") { ... return start_msg.dump(); }
HelloBranch(s, m) ==
    IF m.type # "hello" THEN Going(s)
    ELSE IF m.session_id = Null THEN Thrown(s)
    ELSE Returned([s EXCEPT !.session_id = m.session_id,
                            !.listen_state = "start"],
                  StartMsg(m.session_id))

\* if (received_msg["type"] == "tts") tts_state = received_msg["state"];
TtsUpdate(s, m) ==
    IF m.type # "tts" THEN Going(s)
    ELSE IF m.state = Null THEN Thrown(s)
    ELSE Going([s EXCEPT !.tts_state = m.state])

\* The tts stop branch without listen_state = "start".
TtsStopBranch_nolisten(s, m) ==
    IF s.tts_state # "stop" THEN Going(s)
    ELSE IF m.session_id = Null THEN Thrown(s)
    ELSE Returned([s EXCEPT !.session_id = m.session_id],
                  StartMsg(m.session_id))

\* if (linx_state.tts_state == "stop") { ... return start_msg.dump(); }
TtsStopBranch(s, m) ==
    IF s.tts_state # "stop" THEN Going(s)
    ELSE IF m.session_id = Null THEN Thrown(s)
    ELSE Returned([s EXCEPT !.session_id = m.session_id,
                            !.listen_state = "start"],
                  StartMsg(m.session_id))

\* The tts start branch turning listening over instead of off.
TtsStartBranch_toggle(s, m) ==
    IF s.tts_state = "start"
    THEN Going([s EXCEPT !.listen_state =
                             IF @ = "start" THEN "stop" ELSE "start"])
    ELSE Going(s)

\* The tts start branch left out.
TtsStartBranch_skipped(s, m) == Going(s)

\* if (linx_state.tts_state == "start") listen_state = "stop";
TtsStartBranch(s, m) ==
    IF s.tts_state = "start"
    THEN Going([s EXCEPT !.listen_state = "stop"])
    ELSE Going(s)

\* The goodbye branch also putting tts_state back to its first value.
GoodbyeBranch_reset(s, m) ==
    IF m.type = "goodbye" /\ s.session_id = m.session_id
    THEN Going([s EXCEPT !.session_id = "", !.tts_state = "idle"])
    ELSE Going(s)

\* if (type == "goodbye" && session_id == received_msg["session_id"])
GoodbyeBranch(s, m) ==
    IF m.type = "goodbye" /\ s.session_id = m.session_id
    THEN Going([s EXCEPT !.session_id = ""])
    ELSE Going(s)

\* The branches in the order of the code, until one returns or throws.
Dispatch(s, m) ==
    LET r1 == HelloBranch(s, m)
        r2 == IF r1.left THEN r1 ELSE TtsUpdate(r1.st, m)
        r3 == IF r2.left THEN r2 ELSE TtsStopBranch(r2.st, m)
        r4 == IF r3.left THEN r3 ELSE TtsStartBranch(r3.st, m)
    IN  IF r4.left THEN r4 ELSE GoodbyeBranch(r4.st, m)

\* The text branch: the '{' test, json::parse, the dispatch, the catch.
OnTextMessage(s, f) ==
    IF f.shape \in {"empty", "noise"} THEN Returned(s, EmptyString)
    ELSE IF f.shape = "broken" THEN Thrown(s)
    ELSE Dispatch(s, f)

\* The lambda without its if (binary): every frame is taken for text.
OnMessage_unsplit(s, f) ==
    IF f.shape \in {"empty", "noise"} THEN Returned(s, EmptyString)
    ELSE IF f.shape = "broken" THEN Thrown(s)
    ELSE Dispatch(s, f)

\* The whole lambda: what it leaves of the session state and what it
\* returns.  The binary branch touches neither and returns "".
OnMessage(s, f) ==
    IF f.binary THEN Returned(s, EmptyString) ELSE OnTextMessage(s, f)

Linx == [listen_state |-> listen_state, tts_state |-> tts_state,
         session_id |-> session_id]

----------------------------------------------------------------------------
(* The first demo program, which plays each decoded frame at once: its     *)
(* AudioState as constructed and the text branch of its message lambda.    *)

\* AudioState of the first demo: listen_state = "stop", tts_state = "idle",
\* session_id default-constructed.
Linx1 == [listen_state |-> "stop", tts_state |-> "idle", session_id |-> ""]

\* The first demo's text branch taking no notice of a goodbye.
OnTextMessage1_deaf(s, f) ==
    IF f.shape = "json" /\ f.type = "goodbye"
    THEN Returned(s, EmptyString) ELSE OnTextMessage(s, f)

\* The text branch of the first demo's lambda, statement by statement.
OnTextMessage1(s, f) ==
    IF f.shape \in {"empty", "noise"} THEN Returned(s, EmptyString)
    ELSE IF f.shape = "broken" THEN Thrown(s)
    ELSE IF f.type = "hello"
    THEN IF f.session_id = Null THEN Thrown(s)
         ELSE Returned([s EXCEPT !.session_id = f.session_id,
                                 !.listen_state = "start"],
                       StartMsg(f.session_id))
    ELSE IF f.type = "tts" /\ f.state = Null THEN Thrown(s)
    ELSE LET t == IF f.type = "tts"
                  THEN [s EXCEPT !.tts_state = f.state] ELSE s
         IN  IF t.tts_state = "stop"
             THEN IF f.session_id = Null THEN Thrown(t)
                  ELSE Returned([t EXCEPT !.session_id = f.session_id,
                                          !.listen_state = "start"],
                                StartMsg(f.session_id))
             ELSE LET u == IF t.tts_state = "start"
                           THEN [t EXCEPT !.listen_state = "stop"] ELSE t
                  IN  IF f.type = "goodbye" /\ u.session_id = f.session_id
                      THEN Going([u EXCEPT !.session_id = ""])
                      ELSE Going(u)

\* What each demo's handler leaves and returns for each of the text frames
\* fs, given one after the other from the state s: the first demo ...
RECURSIVE Trace1(_, _)
Trace1(s, fs) ==
    IF fs = << >> THEN << >>
    ELSE LET r == OnTextMessage1(s, Head(fs)) IN
         << [st |-> r.st, reply |-> r.reply] >> \o Trace1(r.st, Tail(fs))

\* ... and the second.
RECURSIVE Trace(_, _)
Trace(s, fs) ==
    IF fs = << >> THEN << >>
    ELSE LET r == OnTextMessage(s, Head(fs)) IN
         << [st |-> r.st, reply |-> r.reply] >> \o Trace(r.st, Tail(fs))

----------------------------------------------------------------------------
(* Sample buffers.  A buffer of shorts is kept as its runs, each a pair of  *)
(* what the samples are ("zero", "pcm" for decoded samples, "junk" for     *)
(* memory never written) and how many there are.                           *)

\* n value-initialised samples: std::vector<opus_int16> v(n), short b[n] = {}.
Zeros(n) == IF n = 0 THEN << >> ELSE << <<"zero", n>> >>

\* The number of samples of a buffer.
RECURSIVE Size(_)
Size(buf) == IF buf = << >> THEN 0 ELSE Head(buf)[2] + Size(Tail(buf))

\* The first n samples of a buffer (all of it when it is shorter).
RECURSIVE Take(_, _)
Take(buf, n) ==
    IF n = 0 \/ buf = << >> THEN << >>
    ELSE IF Head(buf)[2] <= n
         THEN << Head(buf) >> \o Take(Tail(buf), n - Head(buf)[2])
         ELSE << <<Head(buf)[1], n>> >>

\* A buffer without its first n samples.
RECURSIVE Drop(_, _)
Drop(buf, n) ==
    IF n = 0 \/ buf = << >> THEN buf
    ELSE IF Head(buf)[2] <= n
         THEN Drop(Tail(buf), n - Head(buf)[2])
         ELSE << <<Head(buf)[1], Head(buf)[2] - n>> >> \o Tail(buf)

\* n samples of one kind written over the start of a buffer.
Overwrite(buf, what, n) ==
    IF n = 0 THEN buf ELSE << <<what, n>> >> \o Drop(buf, n)

\* The sample count opus_decode returns for a frame that it accepts: a
\* whole 60 ms chunk, a 20 ms one, or nothing.
SampleCount(d) ==
    IF d = "full" THEN CHUNK ELSE IF d = "short" THEN CHUNK \div 3 ELSE 0

\* opus_decode reports an error as a negative count.
Negative(d) == d = "error"

\* The binary branch with buffer left as it is on the stack and only the
\* decoded samples copied.
DecodedChunk_unpadded(f) ==
    LET decoded == SampleCount(f.decoded)
    IN  Take(Overwrite(<< <<"junk", CHUNK>> >>, "pcm", decoded), CHUNK)

\* The binary branch once decoded > 0: pcm_data(CHUNK) holds the decoded
\* samples at its start, memcpy moves CHUNK * 2 bytes of it into buffer,
\* and the chunk pushed is buffer[0 .. CHUNK).
DecodedChunk(f) ==
    LET decoded == SampleCount(f.decoded)
        pcm_data == Overwrite(Zeros(CHUNK), "pcm", decoded)
        buffer == Zeros(CHUNK)
        copied == Take(pcm_data, (CHUNK * 2) \div 2) \o
                  Drop(buffer, (CHUNK * 2) \div 2)
    IN  Take(copied, CHUNK)

\* AudioBuffer::push keeping one chunk only: the oldest is dropped.
push_dropping(q, chunk) ==
    IF q = << >> THEN Append(q, chunk) ELSE Append(Tail(q), chunk)

\* AudioBuffer::push
push(q, chunk) == Append(q, chunk)

\* AudioBuffer::pop without has_data = !buffer_queue.empty().
pop_flagless(q, chunk, flag) ==
    IF q = << >>
    THEN [result |-> FALSE, chunk |-> chunk, buffer_queue |-> q,
          has_data |-> flag]
    ELSE [result |-> TRUE, chunk |-> Head(q), buffer_queue |-> Tail(q),
          has_data |-> flag]

\* AudioBuffer::pop handing out the newest chunk instead of the oldest.
pop_newest(q, chunk, flag) ==
    IF q = << >>
    THEN [result |-> FALSE, chunk |-> chunk, buffer_queue |-> q,
          has_data |-> flag]
    ELSE [result |-> TRUE, chunk |-> q[Len(q)],
          buffer_queue |-> SubSeq(q, 1, Len(q) - 1),
          has_data |-> Len(q) > 1]

\* AudioBuffer::pop: what it returns, the chunk it leaves in its argument,
\* and the queue and has_data after it.
pop(q, chunk, flag) ==
    IF q = << >>
    THEN [result |-> FALSE, chunk |-> chunk, buffer_queue |-> q,
          has_data |-> flag]
    ELSE [result |-> TRUE, chunk |-> Head(q), buffer_queue |-> Tail(q),
          has_data |-> Tail(q) # << >>]

\* short silence[CHUNK] left uninitialised.
silence_uninitialised == << <<"junk", CHUNK>> >>

\* short silence[CHUNK] = {0};
silence == Zeros(CHUNK)

\* audio->Write(data, n): the n samples handed to the device.
Write(data, n) == Take(data, n)

----------------------------------------------------------------------------
(* History kept for the properties. *)

IsHello(f) == f.shape = "json" /\ f.type = "hello"
IsTts(f, state) == f.shape = "json" /\ f.type = "tts" /\ f.state = state
IsGoodbye(f) == f.shape = "json" /\ f.type = "goodbye"

SinceTtsStart(since, f) ==
    IF IsTts(f, "start") THEN TRUE
    ELSE IF IsHello(f) \/ IsTts(f, "stop") THEN FALSE
    ELSE since

\* What kind of frame the handler took f for: binary, one of the raw
\* shapes, or the type of the JSON object.
Kind(f) ==
    IF f.binary THEN "binary"
    ELSE IF f.shape # "json" THEN f.shape
    ELSE f.type

Called(reason, f, response) ==
    [reason |-> reason, kind |-> Kind(f), response |-> response]

\* A playback iteration that has done nothing yet: whether pop gave a
\* chunk, what was written to the device, the milliseconds slept.
NoTick == [pop |-> "none", writes |-> << >>, slept |-> 0]

----------------------------------------------------------------------------
(* Initial state: main() has started the three threads and waits for Enter. *)

Constructed ==
    /\ running = TRUE
    /\ listen_state = "stop"
    /\ tts_state = "idle"
    /\ session_id = ""
    /\ buffer_queue = << >>
    /\ has_data = FALSE
    /\ send_queue_ = << >>
    /\ running_ = FALSE
    /\ conn = "none"
    /\ pc_main = "wait"
    /\ pc_ws = "setup"
    /\ pc_event = "unstarted"
    /\ pc_audio = "loop"
    /\ pc_playback = "loop"
    /\ audio_chunk = << >>
    /\ read_ok = TRUE
    /\ tick = NoTick
    /\ pushed = << >>
    /\ popped = << >>
    /\ exited = FALSE
    /\ last = Called("NONE", NoFrame, EmptyString)
    /\ since_tts_start = FALSE
    /\ queued = << >>
    /\ written = << >>

\* A run whose text frames are not recorded.
Init == Constructed /\ wire_on = FALSE

\* A run whose text frames are recorded in queued and written.
WireInit == Constructed /\ wire_on = TRUE

----------------------------------------------------------------------------
(* ws_thread and the WebSocketClient event loop. *)

\* ws_thread: sets the headers and callbacks, calls ws_client.start().
start ==
    /\ ~exited /\ pc_ws = "setup"
    /\ running_' = TRUE
    /\ pc_event' = "connect"
    /\ pc_ws' = "done"
    /\ UNCHANGED <<linxVars, audioVars, send_queue_, conn, pc_main, pc_audio,
                   exited, histVars, obsVars>>

\* run_event_loop: lws_client_connect_via_info; a null wsi_ ends the thread.
connect ==
    /\ ~exited /\ pc_event = "connect"
    /\ \/ conn' = "connecting" /\ pc_event' = "loop"
       \/ conn' = "none" /\ pc_event' = "done"
    /\ UNCHANGED <<linxVars, audioVars, send_queue_, running_, pc_main, pc_ws,
                   pc_audio, exited, histVars, obsVars>>

\* while (running_ && lws_service(context_, 50) >= 0)
event_loop ==
    /\ ~exited /\ pc_event = "loop"
    /\ pc_event' = IF running_ THEN "service" ELSE "done"
    /\ UNCHANGED <<linxVars, audioVars, wsVars, pc_main, pc_ws, pc_audio,
                   exited, histVars, obsVars>>

\* send_text putting the message at the front of the vector.
send_text_front(q, message) == << message >> \o q

\* send_text
send_text(q, message) == Append(q, message)

\* callback_websocket calling send_text twice for a response.
Queued_twice(q, response) ==
    IF response # EmptyString
    THEN send_text(send_text(q, response), response) ELSE q

\* callback_websocket queueing the response without the empty() test.
Queued_always(q, response) == send_text(q, response)

\* callback_websocket: if (!response.empty()) client->send_text(response);
Queued(q, response) ==
    IF response # EmptyString THEN send_text(q, response) ELSE q

\* The record of send_text's calls after a callback returned response.
Given(response) ==
    IF wire_on /\ response # EmptyString
    THEN Append(queued, response) ELSE queued

\* A recorded run has room for response.
Room(response) ==
    (wire_on /\ response # EmptyString) => Len(queued) < MaxSent

\* The open callback's result thrown away.
callback_established_mute ==
    /\ ~exited /\ pc_event = "service" /\ conn = "connecting"
    /\ conn' = "open"
    /\ last' = Called("ESTABLISHED", NoFrame, EmptyString)
    /\ UNCHANGED <<linxVars, audioVars, send_queue_, running_, pcVars,
                   exited, since_tts_start, obsVars>>

\* The open callback also setting running = true.
callback_established_restart ==
    /\ ~exited /\ pc_event = "service" /\ conn = "connecting"
    /\ Len(send_queue_) < MaxQueue /\ Room(HelloMsg)
    /\ conn' = "open"
    /\ running' = TRUE
    /\ send_queue_' = Queued(send_queue_, HelloMsg)
    /\ queued' = Given(HelloMsg)
    /\ written' = written
    /\ last' = Called("ESTABLISHED", NoFrame, HelloMsg)
    /\ UNCHANGED <<listen_state, tts_state, session_id, audioVars, running_,
                   pcVars, exited, since_tts_start, wire_on>>

\* callback_websocket, LWS_CALLBACK_CLIENT_ESTABLISHED: the open callback
\* returns the hello message, which is queued.
callback_established ==
    /\ ~exited /\ pc_event = "service" /\ conn = "connecting"
    /\ Len(send_queue_) < MaxQueue /\ Room(HelloMsg)
    /\ conn' = "open"
    /\ send_queue_' = Queued(send_queue_, HelloMsg)
    /\ queued' = Given(HelloMsg)
    /\ written' = written
    /\ last' = Called("ESTABLISHED", NoFrame, HelloMsg)
    /\ UNCHANGED <<linxVars, audioVars, running_, pcVars, exited,
                   since_tts_start, wire_on>>

\* callback_websocket, LWS_CALLBACK_CLIENT_RECEIVE with a text frame.
callback_receive_text(f) ==
    /\ ~exited /\ pc_event = "service" /\ conn = "open"
    /\ LET r == OnTextMessage(Linx, f) IN
        /\ r.reply # EmptyString => Len(send_queue_) < MaxQueue
        /\ Room(r.reply)
        /\ listen_state' = r.st.listen_state
        /\ tts_state' = r.st.tts_state
        /\ session_id' = r.st.session_id
        /\ send_queue_' = Queued(send_queue_, r.reply)
        /\ queued' = Given(r.reply)
        /\ written' = written
        /\ last' = Called("RECEIVE", f, r.reply)
    /\ since_tts_start' = SinceTtsStart(since_tts_start, f)
    /\ UNCHANGED <<running, audioVars, running_, conn, pcVars, exited,
                   wire_on>>

\* OpusAudio::Decode: check_opus_error calls exit() on a negative result,
\* otherwise the sample count is returned.
Decode(d) ==
    IF Negative(d)
    THEN [exit |-> TRUE, decoded |-> 0]
    ELSE [exit |-> FALSE, decoded |-> SampleCount(d)]

\* callback_websocket, LWS_CALLBACK_CLIENT_RECEIVE with a binary frame: the
\* binary branch of the handler decodes it and pushes a chunk when the
\* sample count is positive; its "" reply is not queued.
callback_receive_binary(f) ==
    /\ ~exited /\ pc_event = "service" /\ conn = "open"
    /\ IF Decode(f.decoded).exit
       THEN /\ exited' = TRUE
            /\ UNCHANGED <<listen_state, tts_state, session_id, bufVars,
                           send_queue_, pushed, last, queued, written>>
       ELSE /\ exited' = FALSE
            /\ LET r == OnMessage(Linx, f) IN
                /\ Room(r.reply)
                /\ listen_state' = r.st.listen_state
                /\ tts_state' = r.st.tts_state
                /\ session_id' = r.st.session_id
                /\ send_queue_' = Queued(send_queue_, r.reply)
                /\ queued' = Given(r.reply)
                /\ written' = written
                /\ last' = Called("RECEIVE", f, r.reply)
            /\ IF Decode(f.decoded).decoded > 0
               THEN /\ Len(buffer_queue) < MaxBuffer
                    /\ Len(pushed) < MaxPushed
                    /\ buffer_queue' = push(buffer_queue, DecodedChunk(f))
                    /\ has_data' = TRUE
                    /\ pushed' = Append(pushed, DecodedChunk(f))
               ELSE UNCHANGED <<bufVars, pushed>>
    /\ UNCHANGED <<running, running_, conn, pcVars, pc_playback, audio_chunk,
                   tick, popped, read_ok, since_tts_start, wire_on>>

\* callback_websocket, LWS_CALLBACK_CLIENT_CONNECTION_ERROR: the fail
\* callback only logs.
callback_connection_error ==
    /\ ~exited /\ pc_event = "service" /\ conn = "connecting"
    /\ conn' = "error"
    /\ last' = Called("CONNECTION_ERROR", NoFrame, EmptyString)
    /\ UNCHANGED <<linxVars, audioVars, send_queue_, running_, pcVars, exited,
                   since_tts_start, obsVars>>

\* The close callback without listen_state = "stop".
callback_closed_listening ==
    /\ ~exited /\ pc_event = "service" /\ conn = "open"
    /\ conn' = "closed"
    /\ pc_event' = "closing"
    /\ last' = Called("CLOSED", NoFrame, EmptyString)
    /\ UNCHANGED <<linxVars, audioVars, send_queue_, running_, pc_main, pc_ws,
                   pc_audio, exited, since_tts_start, obsVars>>

\* callback_websocket, LWS_CALLBACK_CLOSED: the close callback, first
\* listen_state = "stop" ...
callback_closed ==
    /\ ~exited /\ pc_event = "service" /\ conn = "open"
    /\ conn' = "closed"
    /\ listen_state' = "stop"
    /\ pc_event' = "closing"
    /\ last' = Called("CLOSED", NoFrame, EmptyString)
    /\ UNCHANGED <<running, tts_state, session_id, audioVars, send_queue_,
                   running_, pc_main, pc_ws, pc_audio, exited,
                   since_tts_start, obsVars>>

\* The close callback without running = false.
callback_closed_running_kept ==
    /\ ~exited /\ pc_event = "closing"
    /\ pc_event' = "service"
    /\ UNCHANGED <<linxVars, audioVars, wsVars, pc_main, pc_ws, pc_audio,
                   exited, histVars, obsVars>>

\* ... then running = false.
callback_closed_running ==
    /\ ~exited /\ pc_event = "closing"
    /\ running' = FALSE
    /\ pc_event' = "service"
    /\ UNCHANGED <<listen_state, tts_state, session_id, audioVars, wsVars,
                   pc_main, pc_ws, pc_audio, exited, histVars, obsVars>>

\* lws_service returns; the loop body takes queue_mutex_.
service_returns ==
    /\ ~exited /\ pc_event = "service"
    /\ pc_event' = "drain"
    /\ UNCHANGED <<linxVars, audioVars, wsVars, pc_main, pc_ws, pc_audio,
                   exited, histVars, obsVars>>

\* if (!send_queue_.empty() && wsi_)
Writes == send_queue_ # << >> /\ conn # "none"

\* The loop body with the test of wsi_ turned round: nothing is written
\* on a connection.
drain_idle ==
    /\ ~exited /\ pc_event = "drain"
    /\ pc_event' = "loop"
    /\ UNCHANGED <<linxVars, audioVars, wsVars, pc_main, pc_ws, pc_audio,
                   exited, histVars, obsVars>>

\* The loop body of run_event_loop, under queue_mutex_:
\* if (!send_queue_.empty() && wsi_) { erase the front; lws_write as text }
drain ==
    /\ ~exited /\ pc_event = "drain"
    /\ send_queue_' = IF Writes THEN Tail(send_queue_) ELSE send_queue_
    /\ written' = IF wire_on /\ Writes
                  THEN Append(written, Head(send_queue_)) ELSE written
    /\ queued' = queued
    /\ pc_event' = "loop"
    /\ UNCHANGED <<linxVars, audioVars, running_, conn, pc_main, pc_ws,
                   pc_audio, exited, histVars, wire_on>>

----------------------------------------------------------------------------
(* audio_thread: the capture loop. *)

\* while (linx_state.running)
audio_loop ==
    /\ ~exited /\ pc_audio = "loop"
    /\ pc_audio' = IF running THEN "read" ELSE "done"
    /\ UNCHANGED <<linxVars, audioVars, wsVars, pc_main, pc_ws, pc_event,
                   exited, histVars, obsVars>>

\* audio->Read(buffer, CHUNK): AlsaAudio::Read returns false when the
\* device gave no full chunk; the loop does not look at the result.
audio_read ==
    /\ ~exited /\ pc_audio = "read"
    /\ read_ok' \in BOOLEAN
    /\ pc_audio' = "gate"
    /\ UNCHANGED <<linxVars, bufVars, playVars, wsVars, pc_main, pc_ws,
                   pc_event, exited, histVars, obsVars>>

\* The gate of the capture loop: what it does for a value of listen_state.
Gate(ls) == IF ls # "start" THEN "loop" ELSE "encode"

\* The gate written with = for !=: listen_state is assigned.
audio_gate_assigning ==
    /\ ~exited /\ pc_audio = "gate"
    /\ listen_state' = "start"
    /\ pc_audio' = "encode"
    /\ UNCHANGED <<running, tts_state, session_id, audioVars, wsVars,
                   pc_main, pc_ws, pc_event, exited, histVars, obsVars>>

\* if (linx_state.listen_state != "start") { usleep; continue; }
audio_gate ==
    /\ ~exited /\ pc_audio = "gate"
    /\ pc_audio' = Gate(listen_state)
    /\ UNCHANGED <<linxVars, audioVars, wsVars, pc_main, pc_ws, pc_event,
                   exited, histVars, obsVars>>

\* opus.Encode: a positive size, zero, or a negative code on which
\* check_opus_error calls exit().
audio_encode ==
    /\ ~exited /\ pc_audio = "encode"
    /\ \/ pc_audio' = "send" /\ exited' = FALSE
       \/ pc_audio' = "clear" /\ exited' = FALSE
       \/ pc_audio' = "exit" /\ exited' = TRUE
    /\ UNCHANGED <<linxVars, audioVars, wsVars, pc_main, pc_ws, pc_event,
                   histVars, obsVars>>

\* if (encoded > 0) ws_client.send_binary(...): if (!wsi_) return; else
\* send_mutex_ is taken and lws_write begins on the connection.
audio_send ==
    /\ ~exited /\ pc_audio = "send"
    /\ pc_audio' = IF conn = "none" THEN "clear" ELSE "sending"
    /\ UNCHANGED <<linxVars, audioVars, wsVars, pc_main, pc_ws, pc_event,
                   exited, histVars, obsVars>>

\* send_binary: lws_write has returned, send_mutex_ is released.
audio_sent ==
    /\ ~exited /\ pc_audio = "sending"
    /\ pc_audio' = "clear"
    /\ UNCHANGED <<linxVars, audioVars, wsVars, pc_main, pc_ws, pc_event,
                   exited, histVars, obsVars>>

\* opus_buffer.clear(); usleep(10 * 1000);
audio_clear ==
    /\ ~exited /\ pc_audio = "clear"
    /\ pc_audio' = "loop"
    /\ UNCHANGED <<linxVars, audioVars, wsVars, pc_main, pc_ws, pc_event,
                   exited, histVars, obsVars>>

----------------------------------------------------------------------------
(* playback_thread. *)

\* while (linx_state.running)
playback_loop ==
    /\ ~exited /\ pc_playback = "loop"
    /\ IF running
       THEN pc_playback' = "pop" /\ tick' = NoTick
       ELSE pc_playback' = "done" /\ UNCHANGED tick
    /\ UNCHANGED <<linxVars, bufVars, audio_chunk, pushed, popped, read_ok,
                   wsVars, pcVars, exited, histVars, obsVars>>

\* The playback loop calling wait_for_data() before pop.
playback_pop_waiting ==
    /\ ~exited /\ pc_playback = "pop"
    /\ buffer_queue # << >>
    /\ LET r == pop(buffer_queue, audio_chunk, has_data) IN
        /\ buffer_queue' = r.buffer_queue
        /\ has_data' = r.has_data
        /\ audio_chunk' = r.chunk
        /\ popped' = Append(popped, r.chunk)
        /\ tick' = [tick EXCEPT !.pop = "chunk"]
        /\ pc_playback' = "write"
    /\ UNCHANGED <<linxVars, pushed, read_ok, wsVars, pcVars, exited,
                   histVars, obsVars>>

\* if (audio_buffer.pop(audio_chunk))
playback_pop ==
    /\ ~exited /\ pc_playback = "pop"
    /\ LET r == pop(buffer_queue, audio_chunk, has_data) IN
        /\ buffer_queue' = r.buffer_queue
        /\ has_data' = r.has_data
        /\ audio_chunk' = r.chunk
        /\ popped' = IF r.result THEN Append(popped, r.chunk) ELSE popped
        /\ tick' = [tick EXCEPT !.pop = IF r.result THEN "chunk" ELSE "empty"]
        /\ pc_playback' = IF r.result THEN "write" ELSE "silence"
    /\ UNCHANGED <<linxVars, pushed, read_ok, wsVars, pcVars, exited,
                   histVars, obsVars>>

\* audio->Write(audio_chunk.data(), audio_chunk.size());
playback_write ==
    /\ ~exited /\ pc_playback = "write"
    /\ tick' = [tick EXCEPT
                   !.writes = Append(@, Write(audio_chunk, Size(audio_chunk)))]
    /\ pc_playback' = "loop"
    /\ UNCHANGED <<linxVars, bufVars, audio_chunk, pushed, popped, read_ok,
                   wsVars, pcVars, exited, histVars, obsVars>>

\* audio->Write(silence, CHUNK); usleep(20 * 1000);
playback_silence ==
    /\ ~exited /\ pc_playback = "silence"
    /\ tick' = [tick EXCEPT !.writes = Append(@, Write(silence, CHUNK)),
                            !.slept = @ + (20 * 1000) \div 1000]
    /\ pc_playback' = "loop"
    /\ UNCHANGED <<linxVars, bufVars, audio_chunk, pushed, popped, read_ok,
                   wsVars, pcVars, exited, histVars, obsVars>>

----------------------------------------------------------------------------
(* main(): waits for Enter, clears running, then joins the threads.        *)

\* std::cin.get(); linx_state.running = false;
main_enter ==
    /\ ~exited /\ pc_main = "wait"
    /\ running' = FALSE
    /\ pc_main' = "join"
    /\ UNCHANGED <<listen_state, tts_state, session_id, audioVars, wsVars,
                   pc_ws, pc_event, pc_audio, exited, histVars, obsVars>>

\* playback_thread.join()
main_join_playback ==
    /\ ~exited /\ pc_main = "join" /\ pc_playback = "done"
    /\ pc_main' = "join_audio"
    /\ UNCHANGED <<linxVars, audioVars, wsVars, pc_ws, pc_event, pc_audio,
                   exited, histVars, obsVars>>

\* audio_thread.join()
main_join_audio ==
    /\ ~exited /\ pc_main = "join_audio" /\ pc_audio = "done"
    /\ pc_main' = "join_ws"
    /\ UNCHANGED <<linxVars, audioVars, wsVars, pc_ws, pc_event, pc_audio,
                   exited, histVars, obsVars>>

\* ws_thread.join(); return 0;
main_join_ws ==
    /\ ~exited /\ pc_main = "join_ws" /\ pc_ws = "done"
    /\ pc_main' = "return"
    /\ UNCHANGED <<linxVars, audioVars, wsVars, pc_ws, pc_event, pc_audio,
                   exited, histVars, obsVars>>

\* ~WebSocketClient, run for the global ws_client once main has returned:
\* running_ = false;
destructor ==
    /\ ~exited /\ pc_main = "return"
    /\ running_' = FALSE
    /\ pc_main' = "destroy"
    /\ UNCHANGED <<linxVars, audioVars, send_queue_, conn, pc_ws, pc_event,
                   pc_audio, exited, histVars, obsVars>>

\* ~WebSocketClient: if (event_thread_.joinable()) event_thread_.join();
\* the process ends after it.
destructor_join ==
    /\ ~exited /\ pc_main = "destroy" /\ pc_event \in {"unstarted", "done"}
    /\ pc_main' = "end"
    /\ UNCHANGED <<linxVars, audioVars, wsVars, pc_ws, pc_event, pc_audio,
                   exited, histVars, obsVars>>

----------------------------------------------------------------------------

Next ==
    \/ start
    \/ connect
    \/ event_loop
    \/ callback_established
    \/ \E f \in TextFrames : callback_receive_text(f)
    \/ callback_connection_error
    \/ callback_closed
    \/ callback_closed_running
    \/ service_returns
    \/ drain
    \/ audio_loop
    \/ audio_read
    \/ audio_gate
    \/ audio_encode
    \/ audio_send
    \/ audio_sent
    \/ audio_clear
    \/ main_enter

\* The control plane: the event thread with the text frames it is given,
\* the capture thread and main().
Spec == Init /\ [][Next]_vars

\* The audio path: the event thread with the binary frames it is given,
\* AudioBuffer, the playback thread and main().
AudioNext ==
    \/ start
    \/ connect
    \/ event_loop
    \/ callback_established
    \/ \E f \in BinaryFrames : callback_receive_binary(f)
    \/ callback_connection_error
    \/ callback_closed
    \/ callback_closed_running
    \/ service_returns
    \/ drain
    \/ playback_loop
    \/ playback_pop
    \/ playback_write
    \/ playback_silence
    \/ main_enter

AudioSpec == Init /\ [][AudioNext]_vars

\* The frames given to the client while it shuts down: the server's
\* hello, the start and the stop of speech, and a frame of speech.
ShutdownFrames ==
    {f \in JsonFrames : IsHello(f) /\ f.session_id = "s1"}
    \cup {f \in JsonFrames : f.type = "tts" /\ f.session_id = "s1"
                               /\ f.state \in {"start", "stop"}}
    \cup {f \in BinaryFrames : f.decoded = "full"}

\* The whole client from start to the end of the process.
ShutdownNext ==
    \/ start
    \/ connect
    \/ event_loop
    \/ callback_established
    \/ \E f \in ShutdownFrames : ~f.binary /\ callback_receive_text(f)
    \/ \E f \in ShutdownFrames : f.binary /\ callback_receive_binary(f)
    \/ callback_connection_error
    \/ callback_closed
    \/ callback_closed_running
    \/ service_returns
    \/ drain
    \/ audio_loop
    \/ audio_read
    \/ audio_gate
    \/ audio_encode
    \/ audio_send
    \/ audio_sent
    \/ audio_clear
    \/ playback_loop
    \/ playback_pop
    \/ playback_write
    \/ playback_silence
    \/ main_enter
    \/ main_join_playback
    \/ main_join_audio
    \/ main_join_ws
    \/ destructor
    \/ destructor_join

\* The steps each thread takes by itself once it can.  The user's Enter
\* and what the network brings (a connection, a frame, a close, an error)
\* are not among them.
EventStep ==
    \/ connect
    \/ event_loop
    \/ callback_closed_running
    \/ service_returns
    \/ drain

CaptureStep ==
    \/ audio_loop
    \/ audio_read
    \/ audio_gate
    \/ audio_encode
    \/ audio_send
    \/ audio_sent
    \/ audio_clear

PlaybackStep ==
    \/ playback_loop
    \/ playback_pop
    \/ playback_write
    \/ playback_silence

MainStep ==
    \/ main_join_playback
    \/ main_join_audio
    \/ main_join_ws
    \/ destructor
    \/ destructor_join

\* Every thread that can take a step is scheduled in the end.
ShutdownSpec ==
    /\ Init /\ [][ShutdownNext]_vars
    /\ WF_vars(start)
    /\ WF_vars(EventStep)
    /\ WF_vars(CaptureStep)
    /\ WF_vars(PlaybackStep)
    /\ WF_vars(MainStep)

\* The audio path with the playback thread scheduled in the end whenever
\* it can take a step.
AudioFairSpec == Init /\ [][AudioNext]_vars /\ WF_vars(PlaybackStep)

\* The text frames given to a client whose text frames are recorded: the
\* server's hello, the start of speech, and the end of speech for two
\* sessions.
WireFrames ==
    {f \in JsonFrames : IsHello(f) /\ f.session_id = "s1"}
    \cup {f \in JsonFrames : IsTts(f, "start") /\ f.session_id = "s1"}
    \cup {f \in JsonFrames : IsTts(f, "stop") /\ f.session_id # Null}

\* The event thread and what it queues and writes.
WireNext ==
    \/ start
    \/ connect
    \/ event_loop
    \/ callback_established
    \/ \E f \in WireFrames : callback_receive_text(f)
    \/ callback_connection_error
    \/ callback_closed
    \/ callback_closed_running
    \/ service_returns
    \/ drain

\* lws_service returns after 50 ms at the latest, so the event thread
\* takes its next step in the end.
WireSpec ==
    /\ WireInit /\ [][WireNext]_vars
    /\ WF_vars(start)
    /\ WF_vars(EventStep)

\* The event thread given every text frame.
HandlerNext ==
    \/ start
    \/ connect
    \/ event_loop
    \/ callback_established
    \/ \E f \in TextFrames : callback_receive_text(f)
    \/ callback_connection_error
    \/ callback_closed
    \/ callback_closed_running
    \/ service_returns
    \/ drain

HandlerSpec == Init /\ [][HandlerNext]_vars

\* The event thread and the capture thread.
CloseNext ==
    \/ start
    \/ connect
    \/ event_loop
    \/ callback_established
    \/ \E f \in WireFrames : callback_receive_text(f)
    \/ callback_connection_error
    \/ callback_closed
    \/ callback_closed_running
    \/ service_returns
    \/ drain
    \/ audio_loop
    \/ audio_read
    \/ audio_gate
    \/ audio_encode
    \/ audio_send
    \/ audio_sent
    \/ audio_clear

\* The capture thread is scheduled in the end whenever it can take a step:
\* Read, Encode and lws_write return and usleep(10 * 1000) ends.
CloseSpec == Init /\ [][CloseNext]_vars /\ WF_vars(CaptureStep)

----------------------------------------------------------------------------
(* Properties. *)

\* What the handler does with frame f in the current state.
Handled(f) == OnMessage(Linx, f)

\* A reply is a listen/start message for session sid.
IsListenStart(reply, sid) ==
    /\ Len(reply) = 4
    /\ Field(reply, "session_id") = sid
    /\ Field(reply, "type") = "listen"
    /\ Field(reply, "state") = "start"
    /\ Field(reply, "mode") = "auto"

\* C1: while the connection is open (so that only control messages change
\* listen_state), the capture loop never encodes or sends a frame at an
\* instant when listen_state is not "start", whatever the transport thread
\* does between the gate and the send.
C1_SendsOnlyWhileListening ==
    [][(conn = "open" /\ (audio_encode \/ audio_send))
          => listen_state = "start"]_vars

\* listen_state and tts_state are both "start".
Echo == listen_state = "start" /\ tts_state = "start"

\* C2: listen_state = "start" and tts_state = "start" never both hold after
\* one control message and still after the next one.
C2_NoEchoAcrossTwoMessages ==
    [][(Echo /\ \E f \in TextFrames : callback_receive_text(f)) => ~Echo']_vars

\* C3: a tts start message leaves listen_state = "stop" and returns no
\* reply, and listen_state is "stop" for as long as no hello and no tts stop
\* has been handled since.
C3_TtsStartStopsListening ==
    /\ \A f \in TextFrames :
         IsTts(f, "start") =>
            LET r == Handled(f) IN
            /\ r.st.listen_state = "stop"
            /\ r.reply = EmptyString
    /\ since_tts_start => listen_state = "stop"

\* C3 witness: after a tts start, a goodbye has been handled and
\* listen_state is still "stop".
C3_Witness ==
    /\ since_tts_start
    /\ last.reason = "RECEIVE" /\ last.kind = "goodbye"
    /\ last.response = EmptyString
    /\ listen_state = "stop"

\* C4: a text frame that is empty, does not start with '{', does not parse
\* or has no type leaves the session state alone and gets no reply.
C4_MalformedFrameIgnored ==
    \A f \in TextFrames :
        (f.shape # "json" \/ f.type = Null) =>
            LET r == Handled(f) IN
            /\ r.st = Linx
            /\ r.reply = EmptyString

\* C5: a goodbye whose session_id is not the current one leaves session_id
\* as it was.
C5_GoodbyeMismatchKeepsSession ==
    \A f \in TextFrames :
        (IsGoodbye(f) /\ f.session_id # session_id) =>
            Handled(f).st.session_id = session_id

\* C6: a goodbye whose session_id is the current one leaves session_id
\* empty, whatever tts_state is.
C6_GoodbyeMatchClearsSession ==
    \A f \in TextFrames :
        (IsGoodbye(f) /\ f.session_id = session_id) =>
            Handled(f).st.session_id = ""

\* C7: a JSON message whose type is none of hello, tts, goodbye changes
\* nothing and gets no reply.
C7_OtherTypeDiscarded ==
    \A f \in JsonFrames :
        f.type \notin {"hello", "tts", "goodbye", Null} =>
            LET r == Handled(f) IN
            /\ r.st = Linx
            /\ r.reply = EmptyString

\* C8: a hello carrying session_id s sets session_id = s and listen_state =
\* "start", leaves tts_state alone, and returns one listen/start reply for
\* s, which is queued once.
C8_HelloStartsListening ==
    \A f \in JsonFrames :
        (f.type = "hello" /\ f.session_id # Null) =>
            LET r == Handled(f) IN
            /\ r.st.session_id = f.session_id
            /\ r.st.listen_state = "start"
            /\ r.st.tts_state = tts_state
            /\ IsListenStart(r.reply, f.session_id)
            /\ Queued(send_queue_, r.reply) = Append(send_queue_, r.reply)

\* C8 witness: a hello for s1 has been handled while tts_state was "start".
C8_Witness ==
    /\ last.reason = "RECEIVE" /\ last.kind = "hello"
    /\ IsListenStart(last.response, "s1")
    /\ session_id = "s1" /\ listen_state = "start" /\ tts_state = "start"
    /\ send_queue_ # << >>
    /\ send_queue_[Len(send_queue_)] = last.response

\* tts_state after the handler's tts update of message f: the state of a
\* tts message, else the value left by earlier messages.
TtsAfterUpdate(f) == IF f.type = "tts" THEN f.state ELSE tts_state

\* C9: a message other than hello that carries a session_id and finds
\* tts_state = "stop" after the tts update (set by it or left over) sets
\* session_id to its own, listen_state to "start", and returns a
\* listen/start reply with that session_id.  The tts update is passed by
\* every message but a tts message without a state, which throws in it.
C9_TtsStopRestartsListening ==
    \A f \in JsonFrames :
        (/\ f.type # "hello"
         /\ f.session_id # Null
         /\ f.type = "tts" => f.state # Null
         /\ TtsAfterUpdate(f) = "stop") =>
            LET r == Handled(f) IN
            /\ r.st.session_id = f.session_id
            /\ r.st.listen_state = "start"
            /\ IsListenStart(r.reply, f.session_id)

\* C9 witness: a goodbye for another session was answered with listen/start
\* because tts_state was still "stop".
C9_Witness ==
    /\ last.reason = "RECEIVE" /\ last.kind = "goodbye"
    /\ IsListenStart(last.response, "wrong")
    /\ session_id = "wrong" /\ listen_state = "start" /\ tts_state = "stop"

\* C10: the handler returns a reply only for a hello or when tts_state is
\* "stop" after the tts update, every reply is a listen/start message, and
\* an empty reply queues nothing; tts start, goodbye with tts_state other
\* than "stop", binary and discarded frames get none.
C10_ReplyOnlyFromHelloOrTtsStop ==
    \A f \in Frames :
        LET r == Handled(f) IN
        /\ r.reply # EmptyString =>
              /\ IsHello(f) \/ (f.shape = "json" /\ TtsAfterUpdate(f) = "stop")
              /\ \E sid \in SessionIds : IsListenStart(r.reply, sid)
        /\ r.reply = EmptyString => Queued(send_queue_, r.reply) = send_queue_
        /\ (\/ IsTts(f, "start")
            \/ IsGoodbye(f) /\ tts_state # "stop"
            \/ f.binary
            \/ f.shape \in RawShapes) => r.reply = EmptyString

\* C10 witness: a tts start was handled with no reply and nothing queued.
C10_Witness ==
    /\ last.reason = "RECEIVE" /\ last.kind = "tts"
    /\ last.response = EmptyString
    /\ tts_state = "start" /\ listen_state = "stop"
    /\ send_queue_ = << >>

\* Message f lacks a field the handler reads on its way: session_id of a
\* hello, state of a tts, session_id of a message that reaches the
\* tts_state == "stop" branch.
MissingField(f) ==
    \/ f.type = "hello" /\ f.session_id = Null
    \/ f.type = "tts" /\ f.state = Null
    \/ /\ f.type # "hello"
       /\ f.type = "tts" => f.state # Null
       /\ TtsAfterUpdate(f) = "stop"
       /\ f.session_id = Null

\* C11: a JSON message that lacks a field the handler reads is discarded as
\* a whole: no reply, and listen_state, tts_state and session_id are what
\* they were before it.
C11_MissingFieldDiscardedWhole ==
    \A f \in JsonFrames :
        (conn = "open" /\ pc_event = "service" /\ MissingField(f)) =>
            LET r == Handled(f) IN
            /\ r.st = Linx
            /\ r.reply = EmptyString

\* a is a prefix of b.
IsPrefix(a, b) == Len(a) <= Len(b) /\ SubSeq(b, 1, Len(a)) = a

\* C12: the chunks handed out by successful pops are, in order, a prefix of
\* the chunks pushed, however pushes and pops interleave and however often
\* the playback thread finds the queue empty.
C12_PopsArePrefixOfPushes == IsPrefix(popped, pushed)

\* C12 witness: three chunks, not all alike, were pushed and popped, and
\* the playback thread has since found the queue empty.
C12_Witness ==
    /\ Len(popped) = 3 /\ popped = pushed
    /\ popped[1] # popped[2]
    /\ tick.pop = "empty"

C14_BinaryFrameAppendsPaddedChunk ==
    [][\A f \in BinaryFrames :
          (callback_receive_binary(f) /\ ~Negative(f.decoded)
              /\ SampleCount(f.decoded) > 0) =>
             LET n == SampleCount(f.decoded)
                 entry == buffer_queue'[Len(buffer_queue')]
             IN  /\ Len(buffer_queue') = Len(buffer_queue) + 1
                 /\ SubSeq(buffer_queue', 1, Len(buffer_queue)) = buffer_queue
                 /\ Size(entry) = CHUNK
                 /\ Take(entry, n) = << <<"pcm", n>> >>
                 /\ Drop(entry, n) = Zeros(CHUNK - n)
                 /\ tick'.writes = tick.writes]_vars

\* C14 witness: a short frame was handled after another and sits padded
\* at the tail of buffer_queue.
C14_Witness ==
    /\ last.reason = "RECEIVE" /\ last.kind = "binary"
    /\ Len(buffer_queue) = 2
    /\ buffer_queue[2] =
          << <<"pcm", CHUNK \div 3>>, <<"zero", CHUNK - CHUNK \div 3>> >>

\* C15: a binary frame whose decoding gives no positive sample count is
\* dropped: buffer_queue, the session state and send_queue_ stay as they
\* are and the process goes on.
C15_DecodeFailureDropsFrame ==
    [][\A f \in BinaryFrames :
          (callback_receive_binary(f)
              /\ (Negative(f.decoded) \/ SampleCount(f.decoded) = 0)) =>
             /\ UNCHANGED <<bufVars, listen_state, tts_state, session_id,
                            send_queue_>>
             /\ ~exited']_vars

\* C16: when opus.Encode gives no positive size the capture loop sends
\* nothing for the chunk and goes on to its next iteration; neither the
\* loop nor the process ends.
C16_EncodeFailureSkipsChunk ==
    [][(audio_encode /\ pc_audio' # "send") =>
          (pc_audio' = "clear" /\ ~exited')]_vars

\* C17: an iteration of the capture loop whose audio->Read failed neither
\* encodes nor sends.
C17_FailedReadSkipsIteration ==
    [][(audio_encode \/ audio_send) => read_ok]_vars

\* C18: once the close callback has run, listen_state is "stop" and
\* running is false, and listen_state is "stop" from the moment the
\* callback starts: it never has cleared running with listen_state other
\* than "stop".
C18_CloseStopsListeningFirst ==
    /\ conn = "closed" => listen_state = "stop"
    /\ (conn = "closed" /\ pc_event # "closing") => ~running

\* C18 witness: the connection closed while the client was listening for
\* session s1 and main() was still waiting; the callback has finished.
C18_Witness ==
    /\ conn = "closed" /\ pc_event # "closing"
    /\ last.reason = "CLOSED"
    /\ session_id = "s1" /\ tts_state = "idle"
    /\ listen_state = "stop" /\ ~running
    /\ pc_main = "wait"

\* C19: once the fail callback has run, running is false and listen_state
\* is "stop".
C19_FailureStopsEverything ==
    last.reason = "CONNECTION_ERROR" => (~running /\ listen_state = "stop")

\* The capture loop, the playback loop and the event thread have ended and
\* the joins of main() have returned.
Terminated ==
    /\ pc_audio = "done" /\ pc_playback = "done"
    /\ pc_event \in {"unstarted", "done"}
    /\ pc_main \in {"return", "destroy", "end"}

\* C20: once running is false, whoever cleared it, the capture loop, the
\* playback loop and the event thread end and the joins of main() return
\* (unless the process has called exit()), and once both loops have ended
\* the event thread handles no inbound frame any more.
C20_ShutdownTerminates ==
    /\ ~running ~> (exited \/ Terminated)
    /\ [][(~running /\ pc_audio = "done" /\ pc_playback = "done") =>
            ~(\E f \in ShutdownFrames :
                 callback_receive_text(f) \/ callback_receive_binary(f))]_vars

\* C21: no step of the capture loop or of the playback loop changes
\* running, listen_state, tts_state or session_id, and a step that changes
\* listen_state, tts_state or session_id is the message callback or the
\* close callback on the event thread.
C21_OnlyCallbacksWriteSessionState ==
    [][/\ (CaptureStep \/ PlaybackStep) => UNCHANGED linxVars
       /\ (<<listen_state, tts_state, session_id>>' #
              <<listen_state, tts_state, session_id>>) =>
             \/ callback_closed
             \/ \E f \in ShutdownFrames :
                   callback_receive_text(f) \/ callback_receive_binary(f)]_vars

\* C21 witness: the capture loop is sending and the playback loop has
\* played a chunk, in a session that tts stop has set listening again.
C21_Witness ==
    /\ pc_audio = "sending" /\ pc_playback = "loop" /\ tick.pop = "chunk"
    /\ listen_state = "start" /\ tts_state = "stop" /\ session_id = "s1"
    /\ running

\* The number of hello messages in a record.
Hellos(log) == Cardinality({i \in 1..Len(log) : log[i] = HelloMsg})

\* C22: the open callback queues exactly one hello, nothing is queued
\* before it, and the first text frame written on the connection is the
\* hello, never a listen/start reply.
C22_HelloQueuedOnceAndWrittenFirst ==
    /\ conn \in {"none", "connecting", "error"} => queued = << >>
    /\ conn \in {"open", "closed"} =>
          /\ queued # << >> /\ queued[1] = HelloMsg
          /\ Hellos(queued) = 1
    /\ written # << >> => written[1] = HelloMsg

\* C22 witness: the hello was written, then a listen/start reply.
C22_Witness ==
    /\ Len(written) = 2
    /\ written[1] = HelloMsg /\ IsListenStart(written[2], "s1")

\* C23: while the connection is open and the event loop runs, every
\* message given to send_text is written in the end, and what has been
\* written is the start of what was given, each message once.
C23_RepliesAreWritten ==
    /\ \A k \in 1..MaxSent :
          (Len(queued) >= k) ~>
             (Len(written) >= k \/ conn # "open" \/ pc_event = "done")
    /\ [](IsPrefix(written, queued))

\* C23 witness: three messages were queued and all three written on the
\* open connection.
C23_Witness ==
    /\ conn = "open" /\ Len(queued) = 3 /\ written = queued
    /\ IsListenStart(written[3], "wrong")

\* C24: the event thread writes no text frame while send_binary on the
\* capture thread has a write in progress on the connection.
C24_WritesNeverOverlap ==
    [][(drain /\ Writes) => pc_audio # "sending"]_vars

\* C25: a non-empty string returned by the open callback or by the
\* message callback adds exactly one message at the end of send_queue_,
\* and an empty one leaves send_queue_ as it is.
C25_ReturnedStringQueuedOnce ==
    [][/\ callback_established =>
            send_queue_' = Append(send_queue_, HelloMsg)
       /\ \A f \in WireFrames :
            callback_receive_text(f) =>
               send_queue_' = IF Handled(f).reply # EmptyString
                              THEN Append(send_queue_, Handled(f).reply)
                              ELSE send_queue_]_vars

\* C25 witness: the hello and the reply to the server's hello were
\* queued, one message each, and the start of speech, answered with the
\* empty string, has added nothing.
C25_Witness ==
    /\ last.reason = "RECEIVE" /\ last.kind = "tts"
    /\ last.response = EmptyString
    /\ send_queue_ = << HelloMsg, StartMsg("s1") >>
    /\ queued = send_queue_

\* The chunks the playback thread has written to the device.
Played ==
    IF pc_playback = "write"
    THEN SubSeq(popped, 1, Len(popped) - 1) ELSE popped

\* C26: as long as running is true, every chunk pushed is written to the
\* device in the end, and the chunks written are the start of the chunks
\* pushed, in their order.
C26_PushedChunksArePlayed ==
    /\ \A k \in 1..MaxPushed :
          (Len(pushed) >= k) ~> (~running \/ Len(Played) >= k)
    /\ [](IsPrefix(Played, pushed))

\* C27: push appends its chunk whatever the length of buffer_queue, and
\* the chunks pushed are the chunks popped followed by the chunks queued.
C27_NothingLostOrDropped ==
    /\ pushed = popped \o buffer_queue
    /\ \A f \in BinaryFrames :
          Decode(f.decoded).decoded > 0 =>
             push(buffer_queue, DecodedChunk(f)) =
                buffer_queue \o << DecodedChunk(f) >>

\* C27 witness: buffer_queue is as long as the model lets it grow, after
\* a chunk was popped.
C27_Witness ==
    /\ Len(buffer_queue) = MaxBuffer /\ Len(popped) = 1
    /\ pushed = popped \o buffer_queue
    /\ buffer_queue[1] # buffer_queue[2]

\* C28: the text frames written are the messages given to send_text, in
\* that order, none twice and none skipped, and every write is the one
\* write of an iteration of the event loop.
C28_TextWrittenInOrder ==
    /\ [](queued = written \o send_queue_)
    /\ [][/\ Len(written') <= Len(written) + 1
           /\ written' # written =>
                 (pc_event = "drain" /\ pc_event' = "loop")]_vars

\* C28 witness: three messages, the last two different, were written in
\* the order they were queued.
C28_Witness ==
    /\ Len(written) = 3 /\ written = queued
    /\ written[2] # written[3]
    /\ pc_event = "loop"

\* C29: a binary frame leaves listen_state, tts_state and session_id as
\* they are and gets no reply, and a text frame leaves buffer_queue and
\* has_data as they are.
C29_BinaryAndTextKeepApart ==
    /\ [](\A f \in BinaryFrames :
             Handled(f).st = Linx /\ Handled(f).reply = EmptyString)
    /\ [][\A f \in ShutdownFrames :
             /\ (f.binary /\ callback_receive_binary(f)) =>
                   UNCHANGED <<listen_state, tts_state, session_id,
                               send_queue_>>
             /\ (~f.binary /\ callback_receive_text(f)) =>
                   UNCHANGED bufVars]_vars

\* C29 witness: a frame of speech was handled while the client was
\* listening during speech, and a chunk is queued.
C29_Witness ==
    /\ last.reason = "RECEIVE" /\ last.kind = "binary"
    /\ listen_state = "start" /\ tts_state = "start" /\ session_id = "s1"
    /\ buffer_queue # << >>

\* C30: in the listening turn the server's hello starts, the capture loop
\* writes no binary frame while the client's hello, and so the
\* listen/start reply queued behind it, is not yet written.
C30_ReplyWrittenBeforeAudio ==
    [][(audio_send /\ conn = "open" /\ tts_state = "idle") =>
          \A i \in 1..Len(send_queue_) : send_queue_[i] # HelloMsg]_vars

\* C31: the capture loop writes a binary frame on the connection only
\* when session_id is not empty.
C31_AudioOnlyWithinSession ==
    [][(audio_send /\ conn = "open") => session_id # ""]_vars

\* The close callback has run to its end.
CloseDone == conn = "closed" /\ pc_event # "closing"

\* C32: once the close callback has run to its end the capture loop
\* passes its gate no more, so it sends at most the frame whose gate it
\* had passed before, its next test of running ends it, and in the end it
\* has ended (or Encode has ended the process).
C32_CaptureEndsAfterClose ==
    /\ [][(CloseDone /\ audio_gate) => pc_audio' = "loop"]_vars
    /\ [][(CloseDone /\ audio_loop) => pc_audio' = "done"]_vars
    /\ CloseDone ~> (pc_audio = "done" \/ exited)

\* C32 witness: the close callback has run to its end and the capture
\* loop is sending the frame whose gate it had passed before.
C32_Witness ==
    /\ CloseDone /\ ~running /\ listen_state = "stop"
    /\ pc_audio = "sending"

\* C33: running is true for as long as neither Enter nor the close
\* callback has cleared it, so it is at the start, and no step sets it to
\* true once it is false.
C33_RunningNeverSetAgain ==
    /\ [](running <=> (pc_main = "wait" /\ ~CloseDone))
    /\ [][running' => running]_vars

\* C33 witness: Enter has cleared running and the event thread has
\* handled the server's hello since.
C33_Witness ==
    /\ ~running /\ pc_main = "join" /\ conn = "open"
    /\ last.reason = "RECEIVE" /\ last.kind = "hello"
    /\ listen_state = "start" /\ pc_audio = "done"

\* C34: a message of type tts with a state leaves tts_state at that state,
\* every other frame leaves tts_state as it is, and a step that changes
\* tts_state is the message callback handling a message of type tts.
C34_TtsStateOnlyFromTts ==
    /\ [](\A f \in Frames :
             Handled(f).st.tts_state =
                IF f.shape = "json" /\ f.type = "tts" /\ f.state # Null
                THEN f.state ELSE tts_state)
    /\ [][tts_state' # tts_state =>
             /\ pc_event = "service" /\ conn = "open"
             /\ last'.reason = "RECEIVE" /\ last'.kind = "tts"]_vars

\* C34 witness: speech has started and a goodbye of the session has been
\* handled since, with tts_state still "start".
C34_Witness ==
    /\ tts_state = "start" /\ session_id = ""
    /\ last.reason = "RECEIVE" /\ last.kind = "goodbye"

\* The sequences of at most MaxRun text frames.
Runs == UNION {[1..n -> TextFrames] : n \in 0..MaxRun}

\* C35: given the same text frames from their first states, the two demos
\* leave the same listen_state, tts_state and session_id and return the
\* same reply after every message; and in every state the second demo
\* reaches, the first demo's handler does to that state what the second's
\* does, for every text frame.
C35_DemosHandleMessagesAlike ==
    /\ pc_ws = "setup" =>
          \A fs \in Runs : Trace1(Linx1, fs) = Trace(Linx, fs)
    /\ \A f \in TextFrames :
          /\ OnTextMessage1(Linx, f).st = Handled(f).st
          /\ OnTextMessage1(Linx, f).reply = Handled(f).reply

\* C35 witness: a hello and then the goodbye of its session have been
\* handled, and both demos answer a further hello.
C35_Witness ==
    /\ last.reason = "RECEIVE" /\ last.kind = "goodbye"
    /\ session_id = "" /\ listen_state = "start"
    /\ \E f \in TextFrames :
          /\ IsHello(f) /\ Handled(f).reply # EmptyString
          /\ OnTextMessage1(Linx, f).reply = Handled(f).reply

\* C36: handling the same hello, or the same tts start, a second time
\* leaves the state the first time left and returns the same reply.
C36_HelloAndTtsStartIdempotent ==
    \A f \in TextFrames :
        (IsHello(f) \/ IsTts(f, "start")) =>
            LET once == Handled(f)
                twice == OnMessage(once.st, f)
            IN  /\ twice.st = once.st
                /\ twice.reply = once.reply

\* C36 witness: a tts start has been handled while the client was
\* listening in a session.
C36_Witness ==
    /\ last.reason = "RECEIVE" /\ last.kind = "tts"
    /\ tts_state = "start" /\ listen_state = "stop"
    /\ session_id = "s1" /\ last.response = EmptyString

\* C37: push and pop are each one step under buffer_mutex, and between
\* them has_data is true exactly when buffer_queue is not empty.
C37_HasDataTellsNonEmpty == has_data = (buffer_queue # << >>)

\* C37 witness: two chunks were pushed and one popped: one is queued and
\* has_data is true.
C37_Witness ==
    /\ has_data /\ Len(buffer_queue) = 1
    /\ Len(pushed) = 2 /\ Len(popped) = 1

\* C38: pop on an empty buffer_queue returns false and leaves the queue
\* and the chunk it was given as they are; the playback loop's pop is
\* never held up, and on an empty queue it goes on to play silence with
\* audio_chunk unchanged.
C38_PopOnEmptyReturnsAtOnce ==
    /\ [](pop(<< >>, audio_chunk, has_data) =
            [result |-> FALSE, chunk |-> audio_chunk,
             buffer_queue |-> << >>, has_data |-> has_data])
    /\ []((pc_playback = "pop" /\ ~exited) => ENABLED playback_pop)
    /\ [][(playback_pop /\ buffer_queue = << >>) =>
             /\ buffer_queue' = << >> /\ audio_chunk' = audio_chunk
             /\ pc_playback' = "silence"]_vars

\* C38 witness: pop found the queue empty after a chunk had been played,
\* and the playback loop is about to play silence.
C38_Witness ==
    /\ pc_playback = "silence" /\ tick.pop = "empty"
    /\ buffer_queue = << >> /\ audio_chunk # << >>
    /\ Len(popped) = 1

====
